---- MODULE Spec2Model ----
(***************************************************************************)
(* Remote (HTTP + SSE) mode of the Notion MCP server: the session registry *)
(* and transport bridge of scripts/start-remote-server.ts and the          *)
(* per-connection MCPProxy of src/openapi-mcp-server/mcp/proxy.ts.         *)
(*                                                                         *)
(* The repository holds two session-registry implementations of the       *)
(* bridge; the variable "variant" selects one in the initial state:        *)
(*   "stdio"  src/unnamed/part_004: the session is registered before the   *)
(*            proxy is initialised; a StdioServerTransport whose send is   *)
(*            overridden writes to the SSE response.                       *)
(*   "sse"    src/scripts/start-remote-server.ts lines 1-287: a custom     *)
(*            SSETransport; the session is registered after the proxy is   *)
(*            initialised and before proxy.connect.                        *)
(* Node runs every handler to its next await without interleaving, so one  *)
(* action is one handler segment between two awaits.                       *)
(***************************************************************************)
EXTENDS Integers, Sequences, FiniteSets, TLC

\* ---------------------------------------------------------------- bounds
MaxConn == 2      \* stream-open requests (GET /sse, GET /mcp) that arrive
NumIds == 2       \* distinct values the session id generator can produce
MaxOut == 1       \* JSON-RPC requests the proxies handle, in all
MaxMsg == 4       \* messages posted to the one session of the ordering model
MaxReq == 2       \* requests the stateless server receives
MaxList == 3      \* listings and tool calls of the catalogue model
MaxSent == 2      \* upstream requests of the configuration model, in all

Conn == 1..MaxConn
SessionIds == {<<"session", i>> : i \in 1..NumIds}
NoSid == <<>>               \* req.query.sessionId is undefined or empty
NoVal == "none"             \* an absent (or empty) query parameter / env var

Variants == {"stdio", "sse"}

\* The query of stream-open request c: no notionApiKey, or a key of its own.
QueryKeys(c) == {NoVal, "k" \o ToString(c)}
QueryBaseUrls == {NoVal}
QueryVersions == {NoVal}
Queries(c) == [notionApiKey : QueryKeys(c), baseUrl : QueryBaseUrls,
               notionApiVersion : QueryVersions]
NoQuery == [notionApiKey |-> NoVal, baseUrl |-> NoVal, notionApiVersion |-> NoVal]

\* JSON-RPC bodies posted to /messages: the tool catalogue, a call of a tool.
Bodies == {"tools/list", "tools/call"}

VARIABLES
    variant,    \* which bridge implementation runs
    sdkHook,    \* whether the SDK transport offers the hook the bridge probes for
    envKey,     \* process.env.NOTION_API_KEY
    pc,         \* per stream-open request: where its handler stands
    query,      \* per stream-open request: req.query
    sid,        \* per stream-open request: the sessionId its handler generated
    res,        \* per response: the status and JSON body written (status 0:
                \* headers not sent; an event stream has status 200 and no body)
    closed,     \* per response: the stream has closed
    listener,   \* per response: res.on('close', ...) has been registered
    out,        \* per response: what has been written to it, in order
    proxy,      \* per stream-open request: the MCPProxy built for it
    sessions,   \* the registry: session id -> the request whose session it holds
    reply,      \* the response of the POST /messages whose handler is running
                \* (NoReply when none is)
    calls,      \* per stream-open request: the headers of each upstream HTTP
                \* request its proxy has in flight
    settled,    \* the tool call whose upstream request has just ended and
                \* whose answer is being sent: its request, how the upstream
                \* request ended, and the answer (NoSettled when none is)
    probe       \* the answer of the GET /health whose handler is running
                \* (NoProbe when none is)

\* The stateless server (start-remote-server.ts lines 289-530): POST /mcp and
\* GET /tools answer in the HTTP response, with a proxy taken from a cache.
VARIABLES
    mreq,        \* per stateless request: where its handler stands, its route,
                 \* method and credential, and the proxy instance that served it
    serverCache, \* cache key -> proxy instance
    created      \* how many proxy instances initProxyWithConfig has built

\* One open session seen message by message.
VARIABLES
    ord          \* arrived: how many POST /messages have arrived; handed: the
                 \* messages handed to the transport, in order; pending: the
                 \* tool calls in flight; avail: the messages whose result has
                 \* become available, in order; written: the messages whose
                 \* response has been written to the stream, in order

\* One message submission and the session id the server resolves for it.
VARIABLES
    corr         \* path, query, header: the session id the request carries in
                 \* /messages/:sessionId, ?sessionId= and X-Session-ID; reg: the
                 \* registry; done, status, sessionId: the answer and the id
                 \* the handler looked up

\* One tool call of an MCPProxy.
VARIABLES
    call         \* via: the CallTool request handler or callTool; name: the
                 \* tool asked for; pc: where the call stands; requests: how
                 \* many upstream requests it has issued; result: what it
                 \* returned or threw

\* The tool catalogue of one MCPProxy.
VARIABLES
    lst          \* tools: this.tools, the tools in the order of their keys, each
                 \* with its methods; lookup: this.openApiLookup; returned: what
                 \* each listing so far returned, in order, with an entry
                 \* without tools for each tool call that ran in between;
                 \* calls: how many tool calls have run

\* The sessions seen by their proxies and the upstream requests these issue.
VARIABLES
    cfg          \* env: process.env; status, query, proxy: per stream-open
                 \* request, where its session stands, its query and the proxy
                 \* built for it; sent: per request, the upstream requests its
                 \* proxy has issued, in order; latest: the proxy built last

\* The JSON-RPC answers of the message-submission and /mcp endpoints.
VARIABLES
    rpc          \* per answered request, in order: the endpoint, the id of the
                 \* request (req.body.id) and the HTTP status and JSON body of
                 \* the answer

sessionVars == <<variant, sdkHook, envKey, pc, query, sid, res, closed, listener, out,
                 proxy, sessions, reply, calls, settled, probe>>
cacheVars == <<mreq, serverCache, created>>

\* What the session bridge leaves alone.
otherVars == <<cacheVars, ord, corr, call, lst, cfg, rpc>>

vars == <<sessionVars, cacheVars, ord, corr, call, lst, cfg, rpc>>

\* ------------------------------------------------------- MCPProxy (proxy.ts)

NoHeaders == [Authorization |-> NoVal, NotionVersion |-> NoVal]

Bearer(k) == <<"Bearer", k>>

\* process.env, as far as parseHeaders reads it, when NOTION_API_KEY is k and
\* NOTION_API_VERSION is not set.
EnvOf(k) == [NOTION_API_KEY |-> k, NOTION_API_VERSION |-> NoVal]

\* a || b || c of JavaScript, for values of which only NoVal is falsy.
Or3(a, b, c) == IF a # NoVal THEN a ELSE IF b # NoVal THEN b ELSE c

\* parseHeaders with the precedence reversed: the environment first.
parseHeaders_EnvFirst(config, env) ==
    LET apiKey == Or3(env.NOTION_API_KEY, config.notionApiKey, NoVal)
        apiVersion == Or3(config.notionApiVersion, env.NOTION_API_VERSION, "2022-06-28")
    IN  IF apiKey = NoVal THEN NoHeaders
        ELSE [Authorization |-> Bearer(apiKey), NotionVersion |-> apiVersion]

\* parseHeaders that takes the version of the environment first.
parseHeaders_EnvVersion(config, env) ==
    LET apiKey == Or3(config.notionApiKey, env.NOTION_API_KEY, NoVal)
        apiVersion == Or3(env.NOTION_API_VERSION, config.notionApiVersion, "2022-06-28")
    IN  IF apiKey = NoVal THEN NoHeaders
        ELSE [Authorization |-> Bearer(apiKey), NotionVersion |-> apiVersion]

\* MCPProxy.parseHeaders: config before the environment, for the key and for
\* the version; no key, no headers.
parseHeaders(config, env) ==
    LET apiKey == Or3(config.notionApiKey, env.NOTION_API_KEY, NoVal)
        apiVersion == Or3(config.notionApiVersion, env.NOTION_API_VERSION, "2022-06-28")
    IN  IF apiKey = NoVal THEN NoHeaders
        ELSE [Authorization |-> Bearer(apiKey), NotionVersion |-> apiVersion]

\* ---- a tool call: the CallTool request handler and callTool

\* JavaScript values, as far as a tool call sees them: undefined (and null,
\* which ?. and ?? treat alike), a string, an object with its own fields.
Undefined == [t |-> "undefined"]
Str(v) == [t |-> "string", v |-> v]
Obj(f) == [t |-> "object", f |-> f]
EmptyObject == Obj([k \in {} |-> ""])

\* v?.[k]
GetField(v, k) == IF v.t = "object" /\ k \in DOMAIN v.f THEN v.f[k] ELSE Undefined

\* A serialisation that hands the value on as it is.
Stringify_Raw(v) == v

\* JSON.stringify(v): undefined for undefined, the JSON text of v otherwise.
Stringify(v) == IF v.t = "undefined" THEN Undefined ELSE [json |-> v]

\* The operation ids of the OpenAPI document, each with its operation.
ToolNames == {"API-get-user", "API-post-search"}
OpenApiLookup == [n \in ToolNames |-> [method |-> "get", path |-> "/v1/" \o n]]

\* The tool names a caller asks for.
CallNames == ToolNames \cup {"does-not-exist"}

Null == [method |-> "", path |-> ""]

\* A lookup that finds an operation for every name.
findOperation_Any(lookup, name) ==
    IF name \in DOMAIN lookup THEN lookup[name]
    ELSE lookup[CHOOSE n \in DOMAIN lookup : TRUE]

\* findOperation: this.openApiLookup[operationId] ?? null
findOperation(lookup, name) ==
    IF name \in DOMAIN lookup THEN lookup[name] ELSE Null

\* The fields an upstream response body may have and a value for each (the
\* HTTP status number is written as its JSON text).
BodyFields == {"status", "code", "message"}
BodyFieldValue(k) ==
    IF k = "status" THEN "400"
    ELSE IF k = "code" THEN "validation_error"
    ELSE "body failed validation"

\* The bodies of an upstream response: none, a text, an object.
UpstreamBodies ==
    {Undefined, Str("Not Found")}
        \cup {Obj([k \in K |-> BodyFieldValue(k)]) : K \in SUBSET BodyFields}

\* error.data of an HttpClientError for an upstream body: the body itself, or
\* an object that holds it as response.data.
ErrorDatas(body) ==
    {body, Obj([k \in {"response"} |-> Obj([j \in {"data"} |-> body])])}

\* What executeOperation can end in: a response with its data, an
\* HttpClientError with its data, an error of another class.
UpstreamOutcomes ==
    {[kind |-> "response", data |-> b] : b \in UpstreamBodies}
        \cup UNION {{[kind |-> "HttpClientError", body |-> b, data |-> d] :
                        d \in ErrorDatas(b)} : b \in UpstreamBodies}
        \cup {[kind |-> "Error", message |-> "connect ECONNREFUSED"]}

\* { content: [{ type: 'text', text }] }
Envelope(text) == [content |-> <<[type |-> "text", text |-> text]>>]

\* const data = error.data?.response?.data ?? error.data ?? {}
ErrorDataOf(d) ==
    LET inner == GetField(GetField(d, "response"), "data") IN
    IF inner # Undefined THEN inner
    ELSE IF d # Undefined THEN d
    ELSE EmptyObject

\* { status: 'error', ...(typeof data === 'object' ? data : { data: data }) }:
\* the fields spread after status replace it.
ErrorPayload(data) ==
    IF data.t = "object"
    THEN Obj([k \in {"status"} \cup DOMAIN data.f |->
                 IF k \in DOMAIN data.f THEN data.f[k] ELSE "error"])
    ELSE Obj([k \in {"status", "data"} |-> IF k = "status" THEN "error" ELSE data.v])

\* A catch block that absorbs no error.
Absorbed_None(kind) == FALSE

\* A catch block that absorbs every error.
Absorbed_Every(kind) == TRUE

\* if (error instanceof HttpClientError)
Absorbed(kind) == kind = "HttpClientError"

\* The ways executeOperation can end.
OutcomeKinds == {o.kind : o \in UpstreamOutcomes}

\* The JSON-RPC message that answers a tool call whose upstream request ended
\* in a way: the result envelope, the envelope of an absorbed error, or the
\* error response the protocol layer makes of a thrown error.
AnswerKind(kind) ==
    IF kind = "response" THEN "result"
    ELSE IF Absorbed(kind) THEN "errorEnvelope"
    ELSE "rpcError"

\* What the call returns or throws once executeOperation has settled.
Settle(outcome) ==
    IF outcome.kind = "response"
    THEN [kind |-> "return", value |-> Envelope(Stringify(outcome.data))]
    ELSE IF Absorbed(outcome.kind)
    THEN [kind |-> "return",
          value |-> Envelope(Stringify(ErrorPayload(
                        ErrorDataOf(IF outcome.kind = "HttpClientError"
                                    THEN outcome.data ELSE Undefined))))]
    ELSE [kind |-> "throw", error |-> outcome]

\* throw new Error(`Method ${name} not found`)
MethodNotFound(name) ==
    [kind |-> "throw",
     error |-> [kind |-> "Error", message |-> "Method " \o name \o " not found"]]

NoOutcome == [kind |-> "none"]

NoCall == [via |-> "", name |-> "", pc |-> "idle", requests |-> 0,
           outcome |-> NoOutcome, result |-> NoOutcome]

NoProxy == [built |-> FALSE, config |-> NoQuery, baseUrl |-> NoVal,
            headers |-> NoHeaders, error |-> ""]

\* The OpenAPI documents, as far as the constructor reads them: servers[0].url,
\* declared or not.
Documents == {[url |-> NoVal], [url |-> "https://api.notion.com"]}

\* throw new Error('No base URL found in OpenAPI spec'): no proxy comes to be.
NoBaseUrl == [NoProxy EXCEPT !.error = "No base URL found in OpenAPI spec"]

\* A constructor that does not look for the base URL.
MCPProxy_Unchecked(openApiSpec, config, env) ==
    [built |-> TRUE, config |-> config, baseUrl |-> openApiSpec.url,
     headers |-> parseHeaders(config, env), error |-> ""]

\* A constructor whose HttpClient gets the base URL of the Notion API, whatever
\* the document says.
MCPProxy_FixedUrl(openApiSpec, config, env) ==
    IF openApiSpec.url = NoVal THEN NoBaseUrl
    ELSE [built |-> TRUE, config |-> config, baseUrl |-> "https://api.notion.com",
          headers |-> parseHeaders(config, env), error |-> ""]

\* new MCPProxy(name, openApiSpec, config): without servers[0].url it throws;
\* else the config is kept and the base URL (that of the document) and the
\* headers of the proxy's HttpClient are fixed here, once.
MCPProxy(openApiSpec, config, env) ==
    IF openApiSpec.url = NoVal THEN NoBaseUrl
    ELSE [built |-> TRUE, config |-> config, baseUrl |-> openApiSpec.url,
          headers |-> parseHeaders(config, env), error |-> ""]

\* initProxyWithConfig(specPath, {baseUrl, notionApiKey, notionApiVersion}):
\* a new MCPProxy for every call, built from the document at specPath, whose
\* declared base URL is replaced by the baseUrl of the configuration it is
\* given (a document that declares none stays without).
initProxyWithConfig(doc, config, env) ==
    MCPProxy(IF doc.url # NoVal /\ config.baseUrl # NoVal
             THEN [doc EXCEPT !.url = config.baseUrl] ELSE doc,
             config, env)

\* ------------------------------------------------- handleSSEConnection

\* if (!notionApiKey) accepts everything.
ValidCredential_Always(k) == TRUE

\* if (!notionApiKey) { res.status(400)...; return }
ValidCredential(k) == k # NoVal

\* The configuration extracted from the query, with its defaults.
ConfigOf(q) ==
    [notionApiKey |-> q.notionApiKey,
     baseUrl |-> IF q.baseUrl # NoVal THEN q.baseUrl ELSE "https://api.notion.com",
     notionApiVersion |-> IF q.notionApiVersion # NoVal THEN q.notionApiVersion
                          ELSE "2022-06-28"]

NoResponse == [status |-> 0, error |-> "", usage |-> {}]

\* res.writeHead(200, {'Content-Type': 'text/event-stream', ...})
EventStream == [status |-> 200, error |-> "", usage |-> {}]

\* res.status(400).json({error, usage}): usage names the query parameters.
MissingKey ==
    [status |-> 400, error |-> "Missing required query parameter: notionApiKey",
     usage |-> {"notionApiKey", "baseUrl", "notionApiVersion"}]

\* The first thing written to the stream.
FirstEvent(v, id) ==
    IF v = "stdio" THEN [kind |-> "comment", sessionId |-> NoSid, afterClose |-> FALSE]
    ELSE [kind |-> "endpoint", sessionId |-> id, afterClose |-> FALSE]

\* sessions.set(sessionId, session)
SessionsSet(reg, id, c) ==
    [s \in DOMAIN reg \cup {id} |-> IF s = id THEN c ELSE reg[s]]

\* sessions.delete that removes nothing.
SessionsDelete_Skip(reg, id) == reg

\* sessions.delete(sessionId)
SessionsDelete(reg, id) == [s \in DOMAIN reg \ {id} |-> reg[s]]

EmptyRegistry == [s \in {} |-> 0]

NoSettled == [c |-> 0, cause |-> "", answer |-> ""]

NoProbe == [status |-> 0, body |-> [status |-> "", timestamp |-> ""]]

NoReply == [q |-> NoSid, status |-> 0, message |-> "", routed |-> 0, forwarded |-> FALSE]

\* ------------------------------------- stateless server: the proxy cache

Req == 1..MaxReq

\* POST /mcp and GET /tools.
Routes == {"mcp", "tools"}

\* body.method of a POST /mcp.
Methods == {"initialize", "tools/list", "tools/call", "resources/list"}

\* req.query.notionApiKey of a stateless request.
McpKeys == {NoVal, "k1", "k2"}

\* const cacheKey = `${notionApiKey}:${baseUrl}:${notionApiVersion}`
CacheKey(config) ==
    config.notionApiKey \o ":" \o config.baseUrl \o ":" \o config.notionApiVersion

\* The credential a stateless request runs with: GET /tools falls back to
\* 'placeholder', POST /mcp has no fallback.
McpKeyOf(route, k) == IF route = "tools" /\ k = NoVal THEN "placeholder" ELSE k

\* The configuration of a stateless request: POST /mcp takes baseUrl and
\* notionApiVersion from the query (absent here), GET /tools passes the
\* defaults.
McpConfig(route, k) ==
    ConfigOf([notionApiKey |-> McpKeyOf(route, k), baseUrl |-> NoVal,
              notionApiVersion |-> NoVal])

\* The JSON-RPC error code of the answer to a method, 0 for a result.
McpAnswer(method) ==
    IF method \in {"initialize", "tools/list", "tools/call"} THEN 0 ELSE -32601

NoReq == [pc |-> "idle", route |-> "", method |-> "", key |-> NoVal, inst |-> 0,
          code |-> 0]

EmptyCache == [k \in {} |-> 0]

\* serverCache.set(cacheKey, proxy)
ServerCacheSet(cache, ck, inst) ==
    [k \in DOMAIN cache \cup {ck} |-> IF k = ck THEN inst ELSE cache[k]]

NoMessages == [arrived |-> 0, handed |-> <<>>, pending |-> {}, avail |-> <<>>,
               written |-> <<>>]

NoSubmission == [path |-> NoSid, query |-> NoSid, header |-> NoSid,
                 reg |-> EmptyRegistry, done |-> FALSE, status |-> 0,
                 sessionId |-> NoSid]

NoListing == [tools |-> <<>>, lookup |-> <<>>, returned |-> <<>>, calls |-> 0]

NoConfigs == [env |-> [NOTION_API_KEY |-> NoVal, NOTION_API_VERSION |-> NoVal],
              status |-> [c \in Conn |-> "idle"],
              query |-> [c \in Conn |-> NoQuery],
              proxy |-> [c \in Conn |-> NoProxy],
              sent |-> [c \in Conn |-> <<>>],
              latest |-> NoProxy]

NoAnswers == <<>>

\* The stateless server has received nothing.
CacheIdle ==
    /\ mreq = [r \in Req |-> NoReq]
    /\ serverCache = EmptyCache
    /\ created = 0

\* A POST /mcp or GET /tools arrives, up to await initProxyWithConfig: without
\* notionApiKey POST /mcp answers the JSON-RPC error -32602; a cached proxy
\* serves the request at once; otherwise a proxy is being built.
McpArrive(r, route, method, k) ==
    /\ mreq[r].pc = "idle"
    /\ \A d \in Req : d < r => mreq[d].pc # "idle"
    /\ route = "tools" => method = "tools/list"
    /\ LET ck == CacheKey(McpConfig(route, k))
           req == [NoReq EXCEPT !.route = route, !.method = method,
                                !.key = McpKeyOf(route, k)]
       IN  mreq' = [mreq EXCEPT ![r] =
               IF route = "mcp" /\ ~ValidCredential(k)
               THEN [req EXCEPT !.pc = "rejected", !.code = -32602]
               ELSE IF ck \in DOMAIN serverCache
               THEN [req EXCEPT !.pc = "served", !.inst = serverCache[ck],
                                !.code = McpAnswer(method)]
               ELSE [req EXCEPT !.pc = "creating"]]
    /\ UNCHANGED <<serverCache, created, sessionVars, ord, corr, call, lst, cfg, rpc>>

\* initProxyWithConfig resolved: the new instance is cached under the request's
\* key (replacing what another request cached meanwhile) and serves the
\* request.
McpCreated(r) ==
    /\ mreq[r].pc = "creating"
    /\ created' = created + 1
    /\ serverCache' = ServerCacheSet(serverCache,
                                     CacheKey(McpConfig(mreq[r].route, mreq[r].key)),
                                     created + 1)
    /\ mreq' = [mreq EXCEPT ![r].pc = "served", ![r].inst = created + 1,
                            ![r].code = McpAnswer(mreq[r].method)]
    /\ UNCHANGED <<sessionVars, ord, corr, call, lst, cfg, rpc>>

\* initProxyWithConfig rejected: the catch block answers -32603 (GET /tools:
\* HTTP 500); nothing is cached.
McpFailed(r) ==
    /\ mreq[r].pc = "creating"
    /\ mreq' = [mreq EXCEPT ![r].pc = "failed", ![r].code = -32603]
    /\ UNCHANGED <<serverCache, created, sessionVars, ord, corr, call, lst, cfg, rpc>>

\* ------------------------------------------------ the session bridge

\* No stream-open request has arrived.
NoSessions ==
    /\ envKey = "kenv"
    /\ pc = [c \in Conn |-> "idle"]
    /\ query = [c \in Conn |-> NoQuery]
    /\ sid = [c \in Conn |-> NoSid]
    /\ res = [c \in Conn |-> NoResponse]
    /\ closed = [c \in Conn |-> FALSE]
    /\ listener = [c \in Conn |-> FALSE]
    /\ out = [c \in Conn |-> <<>>]
    /\ proxy = [c \in Conn |-> NoProxy]
    /\ sessions = EmptyRegistry
    /\ reply = NoReply
    /\ calls = [c \in Conn |-> <<>>]
    /\ settled = NoSettled
    /\ probe = NoProbe

InitStateless ==
    /\ variant = "stateless"
    /\ sdkHook = FALSE
    /\ NoSessions
    /\ CacheIdle
    /\ ord = NoMessages
    /\ corr = NoSubmission
    /\ call = NoCall
    /\ cfg = NoConfigs
    /\ rpc = NoAnswers
    /\ lst = NoListing

NextStateless ==
    \/ \E r \in Req : \E route \in Routes, method \in Methods, k \in McpKeys :
          McpArrive(r, route, method, k)
    \/ \E r \in Req : McpCreated(r)
    \/ \E r \in Req : McpFailed(r)

SpecStateless == InitStateless /\ [][NextStateless]_vars

\* The value of the variables of a model that is not running: the bridge
\* neither reads nor writes them.
Off == <<>>

Init ==
    /\ variant \in Variants
    /\ sdkHook \in BOOLEAN
    /\ mreq = Off /\ serverCache = Off /\ created = 0
    /\ ord = Off /\ corr = Off /\ call = Off /\ lst = Off /\ cfg = Off /\ rpc = Off
    /\ envKey = "kenv"
    /\ pc = [c \in Conn |-> "idle"]
    /\ query = [c \in Conn |-> NoQuery]
    /\ sid = [c \in Conn |-> NoSid]
    /\ res = [c \in Conn |-> NoResponse]
    /\ closed = [c \in Conn |-> FALSE]
    /\ listener = [c \in Conn |-> FALSE]
    /\ out = [c \in Conn |-> <<>>]
    /\ proxy = [c \in Conn |-> NoProxy]
    /\ sessions = EmptyRegistry
    /\ reply = NoReply
    /\ calls = [c \in Conn |-> <<>>]
    /\ settled = NoSettled
    /\ probe = NoProbe

\* No handler is in the middle of its run: Node runs a handler from one await
\* to the next without letting any other event in.
Quiet == reply = NoReply /\ settled = NoSettled /\ probe = NoProbe

\* GET /sse or GET /mcp without a usable notionApiKey: 400, and return.
StreamOpenRejected(c, q) ==
    /\ Quiet
    /\ UNCHANGED otherVars
    /\ settled' = NoSettled
    /\ probe' = NoProbe
    /\ pc[c] = "idle"
    /\ \A d \in Conn : d < c => pc[d] # "idle"
    /\ ~ValidCredential(q.notionApiKey)
    /\ pc' = [pc EXCEPT ![c] = "rejected"]
    /\ query' = [query EXCEPT ![c] = q]
    /\ res' = [res EXCEPT ![c] = MissingKey]
    /\ UNCHANGED <<variant, sdkHook, envKey, sid, closed, listener, out, proxy,
                   sessions, calls>>
    /\ reply' = NoReply

\* Session ids are interchangeable names: of the runs that differ only by
\* renaming them, the one that uses them in order is explored.
FirstUse(id) ==
    /\ \A i \in 2..NumIds :
          id = <<"session", i>> => \E d \in Conn : sid[d] = <<"session", i - 1>>

\* GET /sse or GET /mcp with a notionApiKey, up to await initProxyWithConfig:
\* the session id is generated (Date.now() and Math.random(): any value of the
\* generator's range), the stream is opened and its first event written; the
\* stdio variant registers the session here.
StreamOpenAccepted(c, q, id) ==
    /\ Quiet
    /\ UNCHANGED otherVars
    /\ settled' = NoSettled
    /\ probe' = NoProbe
    /\ pc[c] = "idle"
    /\ \A d \in Conn : d < c => pc[d] # "idle"
    /\ ValidCredential(q.notionApiKey)
    /\ FirstUse(id)
    /\ pc' = [pc EXCEPT ![c] = "init"]
    /\ query' = [query EXCEPT ![c] = q]
    /\ sid' = [sid EXCEPT ![c] = id]
    /\ res' = [res EXCEPT ![c] = EventStream]
    /\ out' = [out EXCEPT ![c] = <<FirstEvent(variant, id)>>]
    /\ sessions' = IF variant = "stdio" THEN SessionsSet(sessions, id, c) ELSE sessions
    /\ UNCHANGED <<variant, sdkHook, envKey, closed, listener, proxy, calls>>
    /\ reply' = NoReply

\* initProxyWithConfig resolved, up to await proxy.connect(transport): the
\* transport is created; the sse variant registers the session here.
InitDone(c) ==
    /\ Quiet
    /\ UNCHANGED otherVars
    /\ settled' = NoSettled
    /\ probe' = NoProbe
    /\ pc[c] = "init"
    /\ pc' = [pc EXCEPT ![c] = "connect"]
    /\ \E doc \in Documents :
          LET p == initProxyWithConfig(doc, ConfigOf(query[c]), EnvOf(envKey)) IN
          p.built /\ proxy' = [proxy EXCEPT ![c] = p]
    /\ sessions' = IF variant = "sse" THEN SessionsSet(sessions, sid[c], c) ELSE sessions
    /\ UNCHANGED <<variant, sdkHook, envKey, query, sid, res, closed, listener, out, calls>>
    /\ reply' = NoReply

\* What a rejected initProxyWithConfig leaves of the proxy: the constructor
\* threw for one of the documents, or the promise rejected for another reason
\* (the document could not be read) and there is nothing.
Rejections(config, env) ==
    {NoProxy} \cup {p \in {initProxyWithConfig(doc, config, env) : doc \in Documents} :
                        ~p.built}

\* initProxyWithConfig or proxy.connect rejected: the catch block. The headers
\* were sent by writeHead, so no 500 is written and the stream is not ended.
OpenFailed(c) ==
    /\ Quiet
    /\ UNCHANGED otherVars
    /\ settled' = NoSettled
    /\ probe' = NoProbe
    /\ pc[c] \in {"init", "connect"}
    /\ pc' = [pc EXCEPT ![c] = "failed"]
    /\ sessions' = SessionsDelete(sessions, sid[c])
    /\ IF pc[c] = "init"
       THEN \E p \in Rejections(ConfigOf(query[c]), EnvOf(envKey)) :
               proxy' = [proxy EXCEPT ![c] = p]
       ELSE UNCHANGED proxy
    /\ UNCHANGED <<variant, sdkHook, envKey, query, sid, res, closed, listener, out,
                   calls>>
    /\ reply' = NoReply

\* proxy.connect resolved, to the end of the handler: the stdio variant stores
\* the transport on the session; both register the close listener, last.
ConnectDone(c) ==
    /\ Quiet
    /\ UNCHANGED otherVars
    /\ settled' = NoSettled
    /\ probe' = NoProbe
    /\ pc[c] = "connect"
    /\ pc' = [pc EXCEPT ![c] = "open"]
    /\ listener' = [listener EXCEPT ![c] = TRUE]
    /\ UNCHANGED <<variant, sdkHook, envKey, query, sid, res, closed, out,
                   proxy, sessions, calls>>
    /\ reply' = NoReply

\* What the 'close' event of a response does to the registry: its listeners
\* run, if any has been registered by then.
OnClose(reg, hasListener, id) ==
    IF hasListener THEN SessionsDelete(reg, id) ELSE reg

\* The client disconnects (or the network drops): the response emits 'close',
\* once.
ClientDisconnect(c) ==
    /\ Quiet
    /\ UNCHANGED otherVars
    /\ settled' = NoSettled
    /\ probe' = NoProbe
    /\ res[c].status = 200
    /\ ~closed[c]
    /\ closed' = [closed EXCEPT ![c] = TRUE]
    /\ sessions' = OnClose(sessions, listener[c], sid[c])
    /\ UNCHANGED <<variant, sdkHook, envKey, pc, query, sid, res, listener, out,
                   proxy, calls>>
    /\ reply' = NoReply

\* ------------------------------------------------------ POST /messages

\* The fallback never taken.
UseOnlyActive_Never(q, reg) == FALSE

\* The fallback taken whenever some session is registered.
UseOnlyActive_AnyActive(q, reg) == q = NoSid /\ Cardinality(DOMAIN reg) >= 1

\* if (!sessionId && sessions.size === 1)
UseOnlyActive(q, reg) == q = NoSid /\ Cardinality(DOMAIN reg) = 1

\* The resolution that falls back to the only session for an unknown id too.
ResolveSessionId_Reroute(q, reg) ==
    IF (q = NoSid \/ q \notin DOMAIN reg) /\ Cardinality(DOMAIN reg) = 1
    THEN CHOOSE s \in DOMAIN reg : TRUE
    ELSE q

\* let sessionId = req.query.sessionId; the only active session when none is
\* given: Array.from(sessions.keys())[0]
ResolveSessionId(q, reg) ==
    IF UseOnlyActive(q, reg) THEN CHOOSE s \in DOMAIN reg : TRUE ELSE q

\* stdio variant: typeof transport.handleMessage === 'function'. The class is
\* the SDK's StdioServerTransport, which this repository does not define.
HasHandleMessage == sdkHook

\* stdio variant: (session as any).transport has been assigned, which the
\* stream-open handler does once proxy.connect has resolved.
TransportAssigned(c) == pc[c] = "open"

\* sse variant: this.messageHandler is set. Only setMessageHandler sets it, and
\* no code of the repository calls that: it is set, if ever, by the SDK in
\* proxy.connect.
MessageHandlerSet(c) == sdkHook /\ pc[c] = "open"

\* Whether the POST handler hands the body to the session's proxy.
Forwards(c) ==
    IF variant = "stdio" THEN TransportAssigned(c) /\ HasHandleMessage
    ELSE MessageHandlerSet(c)

\* A transport that looks its response up in the registry, under the id of
\* its session, each time it sends.
TransportResponse_ByRegistry(c) ==
    IF sid[c] \in DOMAIN sessions THEN sessions[sid[c]] ELSE c

\* The response the transport of request c writes to: the res of its own
\* stream-open handler, captured by the sendMessage closure (stdio variant) or
\* kept as this.response (sse variant).
TransportResponse(c) == c

\* A write to the response of request c: res.write(`data: ...`), whatever the
\* state of the stream; afterClose records that it had closed by then.
Write(c, kind) ==
    Append(out[c], [kind |-> kind, sessionId |-> NoSid, afterClose |-> closed[c]])

\* The JSON-RPC messages written to the response of request c so far.
Messages(c) == SelectSeq(out[c], LAMBDA e : e.kind = "message")

RECURSIVE SumOver(_, _)
SumOver(f, S) ==
    IF S = {} THEN 0
    ELSE LET c == CHOOSE x \in S : TRUE IN f[c] + SumOver(f, S \ {c})

\* Room left under the bound of the model: every request a proxy handles is
\* answered by one message, written or still to come.
MayDispatch ==
    SumOver([c \in Conn |-> Len(Messages(c)) + Len(calls[c])], Conn) < MaxOut

\* The proxy of request c handles one JSON-RPC request (the ListTools and
\* CallTool handlers of setupHandlers): the catalogue is answered at once; a
\* tool call issues the upstream request with the headers of the proxy's
\* HttpClient and is answered when that returns.
Dispatch(c, body) ==
    /\ MayDispatch
    /\ IF body = "tools/list"
       THEN /\ out' = [out EXCEPT ![TransportResponse(c)] =
                               Write(TransportResponse(c), "message")]
            /\ UNCHANGED calls
       ELSE /\ calls' = [calls EXCEPT ![c] = Append(@, proxy[c].headers)]
            /\ UNCHANGED out

\* The JSON-RPC result of a forwarded message, as a token.
RpcResult == "result"

\* An acknowledgement that carries the result.
Acknowledge_WithResult(result) == result

\* res.status(202).end(): the body of the acknowledgement is empty, whatever
\* the transport did with the message.
Acknowledge(result) == ""

\* What app.post('/messages') answers to a request with sessionId q when the
\* registry is reg: 400, 404, or 202 with the request whose session it found.
Respond(q, reg) ==
    LET sessionId == ResolveSessionId(q, reg) IN
    IF sessionId = NoSid
    THEN [status |-> 400, message |-> "Session ID required", routed |-> 0]
    ELSE IF sessionId \notin DOMAIN reg
    THEN [status |-> 404, message |-> "Session not found", routed |-> 0]
    ELSE [status |-> 202, message |-> Acknowledge(RpcResult), routed |-> reg[sessionId]]

\* app.post('/messages'): resolve the session, reject (400, 404) or forward
\* the body to the session's transport and acknowledge (202).
PostMessage(q) ==
    /\ Quiet
    /\ UNCHANGED otherVars
    /\ settled' = NoSettled
    /\ probe' = NoProbe
    /\ LET r == Respond(q, sessions)
           fwd == r.routed # 0 /\ Forwards(r.routed)
       IN  /\ reply' = [q |-> q, status |-> r.status, message |-> r.message,
                        routed |-> r.routed, forwarded |-> fwd]
           /\ IF fwd THEN \E body \in Bodies : Dispatch(r.routed, body)
              ELSE UNCHANGED <<out, calls>>
    /\ UNCHANGED <<variant, sdkHook, envKey, pc, query, sid, res, closed, listener,
                   proxy, sessions>>

\* executeOperation returned or threw: the handler builds its answer (a result
\* envelope, or an error) and the server sends it through the transport of the
\* request's own session.
UpstreamReturn(c, kind) ==
    /\ Quiet
    /\ UNCHANGED otherVars
    /\ calls[c] # <<>>
    /\ calls' = [calls EXCEPT ![c] = Tail(@)]
    /\ out' = [out EXCEPT ![TransportResponse(c)] =
                   Write(TransportResponse(c), "message")]
    /\ settled' = [c |-> c, cause |-> kind, answer |-> AnswerKind(kind)]
    /\ probe' = NoProbe
    /\ UNCHANGED <<variant, sdkHook, envKey, pc, query, sid, res, closed, listener,
                   proxy, sessions>>
    /\ reply' = NoReply

\* ------------------------------------ one open session, message by message

\* The first stream-open request has been accepted with the key "k1" and its
\* handler has run to its end; nothing else has happened.
OneOpenSession ==
    LET q == [NoQuery EXCEPT !.notionApiKey = "k1"]
        id == <<"session", 1>>
    IN  /\ envKey = "kenv"
        /\ pc = [c \in Conn |-> IF c = 1 THEN "open" ELSE "idle"]
        /\ query = [c \in Conn |-> IF c = 1 THEN q ELSE NoQuery]
        /\ sid = [c \in Conn |-> IF c = 1 THEN id ELSE NoSid]
        /\ res = [c \in Conn |-> IF c = 1 THEN EventStream ELSE NoResponse]
        /\ closed = [c \in Conn |-> FALSE]
        /\ listener = [c \in Conn |-> c = 1]
        /\ out = [c \in Conn |-> IF c = 1 THEN <<FirstEvent(variant, id)>> ELSE <<>>]
        /\ proxy = [c \in Conn |-> IF c = 1
                                   THEN initProxyWithConfig([url |-> "https://api.notion.com"],
                                                            ConfigOf(q), EnvOf(envKey))
                                   ELSE NoProxy]
        /\ sessions = SessionsSet(EmptyRegistry, id, 1)
        /\ reply = NoReply
        /\ calls = [c \in Conn |-> <<>>]
    /\ settled = NoSettled
    /\ probe = NoProbe

\* send that writes ahead of what the stream already holds.
Send_Front(stream, m) == <<m>> \o stream

\* transport.send(message): res.write(`data: ...`) at once, behind everything
\* written before.
Send(stream, m) == Append(stream, m)

\* POST /messages for the session arrives and is handled to its first await:
\* the body is handed to the transport if the bridge forwards at all; the
\* catalogue is answered at once, a tool call goes upstream.
OrderPost(body) ==
    /\ ord.arrived < MaxMsg
    /\ LET n == ord.arrived + 1 IN
       ord' = IF ~Forwards(1) THEN [ord EXCEPT !.arrived = n]
              ELSE IF body = "tools/list"
              THEN [ord EXCEPT !.arrived = n, !.handed = Append(@, n),
                               !.avail = Append(@, n), !.written = Send(@, n)]
              ELSE [ord EXCEPT !.arrived = n, !.handed = Append(@, n),
                               !.pending = @ \cup {n}]
    /\ UNCHANGED <<sessionVars, cacheVars, corr, call, lst, cfg, rpc>>

\* The upstream request of tool call m returns, whichever call was issued
\* first: its response is sent.
OrderReturn(m) ==
    /\ m \in ord.pending
    /\ ord' = [ord EXCEPT !.pending = @ \ {m}, !.avail = Append(@, m),
                          !.written = Send(@, m)]
    /\ UNCHANGED <<sessionVars, cacheVars, corr, call, lst, cfg, rpc>>

InitOrder ==
    /\ variant \in Variants
    /\ sdkHook \in BOOLEAN
    /\ OneOpenSession
    /\ CacheIdle
    /\ ord = NoMessages
    /\ corr = NoSubmission
    /\ call = NoCall
    /\ cfg = NoConfigs
    /\ rpc = NoAnswers
    /\ lst = NoListing

NextOrder ==
    \/ \E body \in Bodies : OrderPost(body)
    \/ \E m \in 1..MaxMsg : OrderReturn(m)

SpecOrder == InitOrder /\ [][NextOrder]_vars

\* The call looks its tool up, and throws or issues the upstream request.
CallStart ==
    /\ call.pc = "idle"
    /\ call' = IF findOperation(OpenApiLookup, call.name) = Null
               THEN [call EXCEPT !.pc = "done", !.result = MethodNotFound(call.name)]
               ELSE [call EXCEPT !.pc = "upstream", !.requests = @ + 1]
    /\ UNCHANGED <<sessionVars, cacheVars, ord, corr, lst, cfg, rpc>>

\* executeOperation settles and the call returns or throws.
CallEnd(outcome) ==
    /\ call.pc = "upstream"
    /\ call' = [call EXCEPT !.pc = "done", !.outcome = outcome,
                            !.result = Settle(outcome)]
    /\ UNCHANGED <<sessionVars, cacheVars, ord, corr, lst, cfg, rpc>>

InitCall ==
    /\ variant = "stdio"
    /\ sdkHook = FALSE
    /\ NoSessions
    /\ CacheIdle
    /\ ord = NoMessages
    /\ corr = NoSubmission
    /\ lst = NoListing
    /\ cfg = NoConfigs
    /\ rpc = NoAnswers
    /\ \E via \in {"handler", "callTool"}, name \in CallNames :
          call = [NoCall EXCEPT !.via = via, !.name = name]

NextCall ==
    \/ CallStart
    \/ \E outcome \in UpstreamOutcomes : CallEnd(outcome)

SpecCall == InitCall /\ [][NextCall]_vars

\* ------------------------------------------- session correlation, per server

\* The third server (start-remote-server.ts lines 532-718), built on the SDK's
\* SSEServerTransport, besides the two of Variants.
Servers == Variants \cup {"sdk"}

\* The registries with one entry for each id of a set.
Registries == {[s \in R |-> 1] : R \in SUBSET SessionIds}

\* The answers a server can give to a message submission that carries the
\* session ids path, q (in the query) and header, and the id its handler looks up.
\* stdio, sse: only POST /messages is routed (a path segment matches no
\* route: Express answers 404); the id is the query parameter, or the only
\* registered session; the header is not read.
\* sdk: POST /messages/:sessionId looks up the path segment; POST /messages
\* reads only the X-Session-ID header and, for a registered id, hands the
\* request back to the router with its URL unchanged: whether that ever
\* reaches the session's route is left open (answered 202, or never answered).
Correlations(server, path, q, header, reg) ==
    IF server \in Variants
    THEN IF path # NoSid
         THEN {[status |-> 404, sessionId |-> NoSid]}
         ELSE {[status |-> Respond(q, reg).status,
                sessionId |-> ResolveSessionId(q, reg)]}
    ELSE IF path # NoSid
         THEN {[status |-> IF path \in DOMAIN reg THEN 202 ELSE 404, sessionId |-> path]}
         ELSE IF header # NoSid /\ header \in DOMAIN reg
         THEN {[status |-> 202, sessionId |-> header], [status |-> 0, sessionId |-> header]}
         ELSE {[status |-> 400, sessionId |-> NoSid]}

\* The server answers the message submission.
Correlate ==
    /\ ~corr.done
    /\ \E a \in Correlations(variant, corr.path, corr.query, corr.header, corr.reg) :
          corr' = [corr EXCEPT !.done = TRUE, !.status = a.status,
                               !.sessionId = a.sessionId]
    /\ UNCHANGED <<sessionVars, cacheVars, ord, call, lst, cfg, rpc>>

InitCorrelate ==
    /\ variant \in Servers
    /\ sdkHook = FALSE
    /\ NoSessions
    /\ CacheIdle
    /\ ord = NoMessages
    /\ call = NoCall
    /\ cfg = NoConfigs
    /\ rpc = NoAnswers
    /\ lst = NoListing
    /\ \E path, q, header \in SessionIds \cup {NoSid} : \E reg \in Registries :
          corr = [NoSubmission EXCEPT !.path = path, !.query = q,
                                      !.header = header, !.reg = reg]

NextCorrelate == Correlate

SpecCorrelate == InitCorrelate /\ [][NextCorrelate]_vars

\* ------------------------------------------------------ the tool catalogue

\* truncateToolName keeps this many characters of a name.
MaxToolNameLen == 64

\* Sixty characters, to build names around the limit.
Pad60 == "aaaaaaaaaabbbbbbbbbbccccccccccddddddddddeeeeeeeeeeffffffffff"

\* The keys of this.tools: a resource name, or the empty name the list handler
\* provides for.
ResourceNames == {"API", ""}

\* The method names: with "API-" in front, Pad60 gives a name of 64 characters
\* and the two after it names of 65 that agree on their first 64.
MethodNames == {"get-user", Pad60, Pad60 \o "x", Pad60 \o "y"}

\* A method of a tool: its name and a description (here one that tells the tool
\* and the method).
Method(toolName, methodName) ==
    [name |-> methodName, description |-> toolName \o ":" \o methodName]

\* The arrays of one or two different methods of a tool.
MethodLists(toolName) ==
    {<<Method(toolName, m)>> : m \in MethodNames}
        \cup {<<Method(toolName, m), Method(toolName, n)>> :
                 <<m, n>> \in {p \in MethodNames \X MethodNames : p[1] # p[2]}}

\* The tool tables: one or two tools with different keys, in the order in
\* which the keys were set.
ToolTables ==
    {<<[name |-> t, methods |-> ms]>> : <<t, ms>> \in
         UNION {{<<t, ms>> : ms \in MethodLists(t)} : t \in ResourceNames}}
        \cup {<<[name |-> "API", methods |-> ms], [name |-> "", methods |-> ns]>> :
                 <<ms, ns>> \in MethodLists("API") \X MethodLists("")}
        \cup {<<[name |-> "", methods |-> ns], [name |-> "API", methods |-> ms]>> :
                 <<ms, ns>> \in MethodLists("API") \X MethodLists("")}

\* A truncation that keeps one character less.
truncateToolName_Short(name) ==
    IF Len(name) <= MaxToolNameLen THEN name ELSE SubSeq(name, 1, MaxToolNameLen - 1)

\* truncateToolName: name.length <= 64 ? name : name.slice(0, 64)
truncateToolName(name) ==
    IF Len(name) <= MaxToolNameLen THEN name ELSE SubSeq(name, 1, MaxToolNameLen)

\* Object.entries that yields the keys last set first.
ObjectEntries_Reversed(table) ==
    [i \in 1..Len(table) |-> table[Len(table) + 1 - i]]

\* Object.entries(this.tools): the entries in the order in which the keys were
\* set (the keys are names, none of them an array index).
ObjectEntries(table) == table

\* The name of a method before truncation. The list handler:
\* toolName ? `${toolName}-${method.name}` : method.name; listTools():
\* `${toolName}-${method.name}`.
toolNameWithMethod(via, toolName, methodName) ==
    IF via = "handler" /\ toolName = "" THEN methodName
    ELSE toolName \o "-" \o methodName

\* A push that leaves out an entry whose name the list already holds.
Push_Unique(tools, entry) ==
    IF \E i \in 1..Len(tools) : tools[i].name = entry.name THEN tools
    ELSE Append(tools, entry)

\* tools.push({name, description, inputSchema})
Push(tools, entry) == Append(tools, entry)

\* def.methods.forEach(method => tools.push(...)), from the methods still to
\* visit.
RECURSIVE PushMethods(_, _, _, _)
PushMethods(via, toolName, methods, tools) ==
    IF methods = <<>> THEN tools
    ELSE PushMethods(via, toolName, Tail(methods),
             Push(tools,
                  [name |-> truncateToolName(
                                toolNameWithMethod(via, toolName, Head(methods).name)),
                   description |-> Head(methods).description]))

\* Object.entries(this.tools).forEach(([toolName, def]) => ...), from the
\* entries still to visit.
RECURSIVE PushTools(_, _, _)
PushTools(via, entries, tools) ==
    IF entries = <<>> THEN tools
    ELSE PushTools(via, Tail(entries),
                   PushMethods(via, Head(entries).name, Head(entries).methods, tools))

\* The ListTools request handler: { tools }
ListToolsHandler(table) == PushTools("handler", ObjectEntries(table), <<>>)

\* listTools(): { tools }
listTools(table) == PushTools("listTools", ObjectEntries(table), <<>>)

\* Room left under the bound of the catalogue model.
MayList == Len(lst.returned) < MaxList

\* A tools/list request is handled, or listTools() is called: neither assigns
\* to this.tools or this.openApiLookup.
ListRun(via) ==
    /\ MayList
    /\ lst' = [lst EXCEPT !.returned =
                  Append(@, [via |-> via,
                             tools |-> IF via = "handler" THEN ListToolsHandler(lst.tools)
                                       ELSE listTools(lst.tools)])]
    /\ UNCHANGED <<sessionVars, cacheVars, ord, corr, call, cfg, rpc>>

\* A tool call runs between two listings, from its lookup to its return: it
\* reads this.openApiLookup and assigns to no field of the proxy.
ListCall(name) ==
    /\ MayList
    /\ lst' = [lst EXCEPT !.calls = @ + 1,
                          !.returned = Append(@, [via |-> "callTool", tools |-> <<>>])]
    /\ UNCHANGED <<sessionVars, cacheVars, ord, corr, call, cfg, rpc>>

InitList ==
    /\ variant = "stdio"
    /\ sdkHook = FALSE
    /\ NoSessions
    /\ CacheIdle
    /\ ord = NoMessages
    /\ corr = NoSubmission
    /\ call = NoCall
    /\ cfg = NoConfigs
    /\ rpc = NoAnswers
    /\ \E table \in ToolTables :
          lst = [NoListing EXCEPT !.tools = table, !.lookup = OpenApiLookup]

NextList ==
    \/ \E via \in {"handler", "listTools"} : ListRun(via)
    \/ \E name \in CallNames : ListCall(name)

SpecList == InitList /\ [][NextList]_vars

\* ------------------------- sessions, their configuration and their requests

\* The environments of the process.
Environments == [NOTION_API_KEY : {NoVal, "kenv"}, NOTION_API_VERSION : {NoVal, "venv"}]

\* The query of stream-open request c: a key of its own, with or without the
\* overrides baseUrl and notionApiVersion.
ConfigQueries(c) ==
    [notionApiKey : {"k" \o ToString(c)},
     baseUrl : {NoVal, "https://api.example.com"},
     notionApiVersion : {NoVal, "v1"}]

\* How many sessions have been opened or closed so far.
Events ==
    Cardinality({c \in Conn : cfg.status[c] # "idle"})
        + Cardinality({c \in Conn : cfg.status[c] = "closed"})

\* A proxy that issues its requests through the client built last, whichever
\* proxy that was built for.
HttpClientOf_Latest(own, latest) == latest

\* this.httpClient: the client the proxy built in its own constructor.
HttpClientOf(own, latest) == own

\* this.httpClient.executeOperation(operation, params): the request goes to the
\* base URL of the client and carries the headers of the client; after: how
\* many sessions had been opened or closed by then.
ExecuteOperation(client, n) ==
    [baseUrl |-> client.baseUrl, headers |-> client.headers, after |-> n]

\* GET /sse or GET /mcp of request c with a notionApiKey, through the whole
\* handler: the proxy is built from the query, and the session is open, or the
\* construction throws and the stream-open has failed.
ConfigOpen(c, q, doc) ==
    /\ cfg.status[c] = "idle"
    /\ \A d \in Conn : d < c => cfg.status[d] # "idle"
    /\ ValidCredential(q.notionApiKey)
    /\ LET p == initProxyWithConfig(doc, ConfigOf(q), cfg.env) IN
       cfg' = [cfg EXCEPT !.status[c] = IF p.built THEN "open" ELSE "failed",
                          !.query[c] = q,
                          !.proxy[c] = p,
                          !.latest = IF p.built THEN p ELSE @]
    /\ UNCHANGED <<sessionVars, cacheVars, ord, corr, call, lst, rpc>>

\* The stream of session c closes: the session is gone, its proxy is left as
\* it is.
ConfigClose(c) ==
    /\ cfg.status[c] = "open"
    /\ cfg' = [cfg EXCEPT !.status[c] = "closed"]
    /\ UNCHANGED <<sessionVars, cacheVars, ord, corr, call, lst, rpc>>

\* How many upstream requests have been issued, in all.
NumSent == SumOver([c \in Conn |-> Len(cfg.sent[c])], Conn)

\* A tool call on session c: its proxy issues the upstream request.
ConfigCall(c) ==
    /\ cfg.status[c] = "open"
    /\ NumSent < MaxSent
    /\ cfg' = [cfg EXCEPT !.sent[c] =
                  Append(@, ExecuteOperation(HttpClientOf(cfg.proxy[c], cfg.latest),
                                             Events))]
    /\ UNCHANGED <<sessionVars, cacheVars, ord, corr, call, lst, rpc>>

InitConfig ==
    /\ variant = "stdio"
    /\ sdkHook = FALSE
    /\ NoSessions
    /\ CacheIdle
    /\ ord = NoMessages
    /\ corr = NoSubmission
    /\ call = NoCall
    /\ lst = NoListing
    /\ \E env \in Environments : cfg = [NoConfigs EXCEPT !.env = env]
    /\ rpc = NoAnswers

NextConfig ==
    \/ \E c \in Conn : \E q \in ConfigQueries(c), doc \in Documents : ConfigOpen(c, q, doc)
    \/ \E c \in Conn : ConfigClose(c)
    \/ \E c \in Conn : ConfigCall(c)

SpecConfig == InitConfig /\ [][NextConfig]_vars

\* ---------------------------------------------- JSON-RPC error responses

\* Room for this many answered requests.
MaxErr == 2

\* A JavaScript number.
Num(n) == [t |-> "number", v |-> n]

\* null
JsNull == [t |-> "null"]

\* req.body.id: absent, a number or a string.
RequestIds == {Undefined, Num(0), Num(1), Str(""), Str("a")}

\* The values JavaScript takes for false in a condition.
Falsy(v) == v \in {Undefined, JsNull, Num(0), Str("")}

\* req.body.id || null
OrNull(v) == IF Falsy(v) THEN JsNull ELSE v

\* The JSON body { jsonrpc: '2.0', error: { code, message }, id }; res.json
\* leaves out a member whose value is undefined, which is the id Undefined
\* here.
JsonRpcError(code, message, id) == [code |-> code, message |-> message, id |-> id]

\* A body that is not a JSON-RPC error: the empty body of an acknowledgement,
\* or a result with the id requestId.
NoError(id) == [code |-> 0, message |-> "", id |-> id]

\* What app.post('/messages') answers to a body with the id `id`, sent with the
\* session id q when the registry is reg; throws: the transport rejects the
\* message.
SubmitAnswer(q, reg, id, throws) ==
    LET r == Respond(q, reg) IN
    IF r.status \in {400, 404}
    THEN [status |-> r.status, body |-> JsonRpcError(-32000, r.message, OrNull(id))]
    ELSE IF throws
    THEN [status |-> 500, body |-> JsonRpcError(-32603, "Internal error", OrNull(id))]
    ELSE [status |-> 202, body |-> NoError(Undefined)]

\* What app.post('/mcp') answers to a body with the id `id` and a method, sent
\* with the credential k; throws: getOrCreateServer or the handler of the
\* method throws.
McpErrorAnswer(k, method, id, throws) ==
    IF ~ValidCredential(k)
    THEN [status |-> 200,
          body |-> JsonRpcError(-32602, "Missing required query parameter: notionApiKey",
                                OrNull(id))]
    ELSE IF throws
    THEN [status |-> 200, body |-> JsonRpcError(-32603, "Internal error", OrNull(id))]
    ELSE IF McpAnswer(method) # 0
    THEN [status |-> 200, body |-> JsonRpcError(McpAnswer(method), "Method not found", id)]
    ELSE [status |-> 200, body |-> NoError(id)]

\* A POST /messages is answered.
RpcSubmit(q, reg, id, throws) ==
    /\ Len(rpc) < MaxErr
    /\ rpc' = Append(rpc, [endpoint |-> "messages", id |-> id,
                           answer |-> SubmitAnswer(q, reg, id, throws)])
    /\ UNCHANGED <<sessionVars, cacheVars, ord, corr, call, lst, cfg>>

\* A POST /mcp is answered.
RpcMcp(k, method, id, throws) ==
    /\ Len(rpc) < MaxErr
    /\ rpc' = Append(rpc, [endpoint |-> "mcp", id |-> id,
                           answer |-> McpErrorAnswer(k, method, id, throws)])
    /\ UNCHANGED <<sessionVars, cacheVars, ord, corr, call, lst, cfg>>

InitRpc ==
    /\ variant = "stdio"
    /\ sdkHook = FALSE
    /\ NoSessions
    /\ CacheIdle
    /\ ord = NoMessages
    /\ corr = NoSubmission
    /\ call = NoCall
    /\ lst = NoListing
    /\ cfg = NoConfigs
    /\ rpc = NoAnswers

NextRpc ==
    \/ \E q \in SessionIds \cup {NoSid} : \E reg \in Registries :
          \E id \in RequestIds : \E throws \in BOOLEAN : RpcSubmit(q, reg, id, throws)
    \/ \E k \in McpKeys : \E method \in Methods :
          \E id \in RequestIds : \E throws \in BOOLEAN : RpcMcp(k, method, id, throws)

SpecRpc == InitRpc /\ [][NextRpc]_vars

\* ------------------------------------------------------------ GET /health

\* res.json that answers with a server error.
ResJson_Error(body) == [status |-> 500, body |-> body]

\* res.json(body): status 200 and the body.
ResJson(body) == [status |-> 200, body |-> body]

\* new Date().toISOString(): the time of the answer (the model has no clock).
Timestamp == "now"

\* app.get('/health'): the handler reads nothing of the request and nothing of
\* the server, and answers.
Health ==
    /\ Quiet
    /\ UNCHANGED otherVars
    /\ probe' = ResJson([status |-> "healthy", timestamp |-> Timestamp])
    /\ UNCHANGED <<variant, sdkHook, envKey, pc, query, sid, res, closed, listener,
                   out, proxy, sessions, reply, calls, settled>>

\* The handler that answered a message or a probe, or that sent the answer to
\* a tool call, runs to its end: the response is out and the next event is
\* taken up.
HandlerReturns ==
    /\ ~Quiet
    /\ reply' = NoReply
    /\ settled' = NoSettled
    /\ probe' = NoProbe
    /\ UNCHANGED <<variant, sdkHook, envKey, pc, query, sid, res, closed, listener,
                   out, proxy, sessions, calls>>
    /\ UNCHANGED otherVars

Next ==
    \/ \E c \in Conn : \E q \in Queries(c) : StreamOpenRejected(c, q)
    \/ \E c \in Conn : \E q \in Queries(c), id \in SessionIds :
          StreamOpenAccepted(c, q, id)
    \/ \E c \in Conn : InitDone(c)
    \/ \E c \in Conn : OpenFailed(c)
    \/ \E c \in Conn : ConnectDone(c)
    \/ \E c \in Conn : ClientDisconnect(c)
    \/ \E q \in SessionIds \cup {NoSid} : PostMessage(q)
    \/ \E c \in Conn : \E kind \in OutcomeKinds : UpstreamReturn(c, kind)
    \/ Health
    \/ HandlerReturns

Spec == Init /\ [][Next]_vars

\* ------------------------------------------------------------------ claims

\* The stream-open requests whose session the registry holds.
Registered == {sessions[s] : s \in DOMAIN sessions}

C2_NoCredentialRejected ==
    /\ [](\A c \in Conn :
            pc[c] = "rejected" => /\ sid[c] = NoSid
                                  /\ c \notin Registered
                                  /\ out[c] = <<>>)
    /\ [][\A c \in Conn :
            (pc[c] = "idle" /\ pc'[c] # "idle" /\ query'[c].notionApiKey = NoVal)
                => /\ pc'[c] = "rejected"
                   /\ res'[c].status = 400
                   /\ {"notionApiKey", "baseUrl", "notionApiVersion"} \subseteq res'[c].usage
                   /\ sid'[c] = NoSid
                   /\ sessions' = sessions]_vars

\* A request without a key has been rejected while a session is registered.
C2_Witness ==
    \E c \in Conn : pc[c] = "rejected" /\ res[c].status = 400 /\ Registered # {}

\* C3: when the stream of an established session (its close listener is
\* registered) closes, the registry holds no entry for that session's id in
\* the next state, and a message submitted with that id is answered 404
\* 'Session not found'.
C3_CloseRemovesSession ==
    [][\A c \in Conn :
         (listener[c] /\ ~closed[c] /\ closed'[c])
             => /\ sid[c] \notin DOMAIN sessions'
                /\ c \notin {sessions'[s] : s \in DOMAIN sessions'}
                /\ Respond(sid[c], sessions').status = 404
                /\ Respond(sid[c], sessions').message = "Session not found"]_vars

\* The stream of an established session has closed and a message addressed to
\* its id has been answered 404.
C3_Witness ==
    \E c \in Conn :
        /\ listener[c] /\ closed[c]
        /\ \A d \in Conn \ {c} : sid[d] # sid[c]
        /\ reply.q = sid[c]
        /\ reply.status = 404
        /\ reply.message = "Session not found"

\* C4: once a stream has closed and its stream-open handler has finished, the
\* registry holds no entry for that stream's session, whenever the closure
\* happened (also while the handler awaited initProxyWithConfig or
\* proxy.connect).
C4_ClosedStreamUnregistered ==
    \A c \in Conn : (closed[c] /\ pc[c] \in {"open", "failed"}) => c \notin Registered

\* C5: a message acknowledged (202) for a session that is OPEN (its stream-open
\* handler has connected the proxy and its stream has not closed) has been
\* forwarded to the protocol dispatch of that session's proxy.
C5_AcknowledgedIsForwarded ==
    (/\ reply.status = 202
     /\ pc[reply.routed] = "open"
     /\ ~closed[reply.routed]) => reply.forwarded

C10_FreshSessionId ==
    [][/\ \A c \in Conn :
            (pc[c] = "idle" /\ pc'[c] = "init") => sid'[c] \notin DOMAIN sessions
       /\ \A s \in DOMAIN sessions :
            s \in DOMAIN sessions' => sessions'[s] = sessions[s]]_vars

C12_OrderPreserved ==
    /\ \A i, j \in 1..Len(ord.handed) : i < j => ord.handed[i] < ord.handed[j]
    /\ ord.written = ord.avail

\* Two responses have been written in the order their results became
\* available, which is not the order in which their messages arrived.
C12_Witness ==
    \E i, j \in 1..Len(ord.written) : i < j /\ ord.written[i] > ord.written[j]

\* C13: the first thing written to an accepted stream is the endpoint event,
\* which carries the address of the message-submission endpoint and the
\* session id assigned to the stream.
C13_FirstEventAnnounces ==
    \A c \in Conn :
        out[c] # <<>> => (out[c][1].kind = "endpoint" /\ out[c][1].sessionId = sid[c])

\* C14: the acknowledgement (202) of a message submission has an empty body,
\* so it never carries the RPC result; the result of a forwarded message is
\* written to, or still awaited for, the stream of the session it was routed
\* to.
C14_AckCarriesNoResult ==
    reply.status = 202
        => /\ reply.message = ""
           /\ reply.message # RpcResult
           /\ reply.forwarded
                 => Len(Messages(reply.routed)) + Len(calls[reply.routed]) >= 1

\* A message has been acknowledged and forwarded, and its result has been
\* written to the stream of its session.
C14_Witness ==
    /\ reply.status = 202
    /\ reply.forwarded
    /\ Messages(reply.routed) # <<>>

\* C15: the session id a message submission is looked up with is the path
\* segment if it has one, else the query parameter, else the header, else
\* (only with exactly one registered session) that session's id, else none.
C15_PriorityOrder ==
    corr.done =>
        corr.sessionId =
            IF corr.path # NoSid THEN corr.path
            ELSE IF corr.query # NoSid THEN corr.query
            ELSE IF corr.header # NoSid THEN corr.header
            ELSE IF Cardinality(DOMAIN corr.reg) = 1
            THEN CHOOSE x \in DOMAIN corr.reg : TRUE
            ELSE NoSid

\* C16: a step in which the stream-open of a request fails or its stream
\* closes leaves the registry entry, the handler position, the stream and the
\* proxy of every other request as they were, and so does a step that rejects
\* a message (400, 404).
C16_FailureIsLocal ==
    [][/\ \A c \in Conn :
            ((pc[c] # "failed" /\ pc'[c] = "failed") \/ (~closed[c] /\ closed'[c]))
                => \A d \in Conn \ {c} :
                      /\ \A s \in DOMAIN sessions :
                            sessions[s] = d
                                => (s \in DOMAIN sessions' /\ sessions'[s] = d)
                      /\ pc'[d] = pc[d]
                      /\ out'[d] = out[d]
                      /\ proxy'[d] = proxy[d]
       /\ reply'.status \in {400, 404}
             => (sessions' = sessions /\ pc' = pc /\ out' = out /\ proxy' = proxy)]_vars

\* C17: a tool call whose upstream request fails with an HttpClientError
\* returns normally, with an envelope of exactly one text item; a call whose
\* upstream request fails with any other error throws that error.
C17_UpstreamErrorAbsorbed ==
    call.pc = "done" =>
        /\ call.outcome.kind = "HttpClientError"
              => /\ call.result.kind = "return"
                 /\ Len(call.result.value.content) = 1
                 /\ call.result.value.content[1].type = "text"
        /\ call.outcome.kind = "Error"
              => /\ call.result.kind = "throw"
                 /\ call.result.error = call.outcome

\* A call has returned the envelope of an upstream API error.
C17_Witness ==
    /\ call.pc = "done"
    /\ call.outcome.kind = "HttpClientError"
    /\ call.result.kind = "return"

\* C18: the payload of the envelope built for an HttpClientError has status
\* 'error' and every field of the upstream response body with the body's
\* value; a body that is no object is its field 'data'.
C18_ErrorPayloadComplete ==
    (call.pc = "done" /\ call.outcome.kind = "HttpClientError") =>
        LET payload == call.result.value.content[1].text.json.f
            body == call.outcome.body
        IN  /\ payload["status"] = "error"
            /\ body.t = "object" => \A k \in DOMAIN body.f :
                                       k \in DOMAIN payload /\ payload[k] = body.f[k]
            /\ body.t = "string" => ("data" \in DOMAIN payload /\ payload["data"] = body.v)

C19_SessionSurvivesApiError ==
    [][\A c \in Conn :
          (settled'.c = c /\ settled'.cause = "HttpClientError")
              => /\ settled'.answer = "errorEnvelope"
                 /\ sessions' = sessions
                 /\ pc' = pc
                 /\ closed' = closed
                 /\ proxy' = proxy
                 /\ Respond(sid[c], sessions') = Respond(sid[c], sessions)]_vars

\* A tool call of a session has just ended in an absorbed upstream API error;
\* the session is registered and open, and a message addressed to it is
\* routed to it.
C19_Witness ==
    \E c \in Conn :
        /\ pc[c] = "open"
        /\ ~closed[c]
        /\ settled = [c |-> c, cause |-> "HttpClientError", answer |-> "errorEnvelope"]
        /\ Respond(sid[c], sessions).status = 202
        /\ Respond(sid[c], sessions).routed = c

\* The listings returned so far through one entry point.
Listings(via) ==
    {r \in 1..Len(lst.returned) : lst.returned[r].via = via}

\* How many methods the tools before the a-th of a table have.
RECURSIVE MethodsBefore(_, _)
MethodsBefore(table, a) ==
    IF a = 1 THEN 0 ELSE MethodsBefore(table, a - 1) + Len(table[a - 1].methods)

\* The first 64 characters of a name, the whole name if it has no more.
First64(name) == IF Len(name) <= 64 THEN name ELSE SubSeq(name, 1, 64)

\* C21: for every method of every tool, each listing returned by listTools()
\* has an entry for the method whose name is '{resource}-{method}' when that
\* has 64 characters or fewer and its first 64 characters otherwise; the name
\* depends on nothing but that string.
C21_ListedNameTruncated ==
    \A r \in Listings("listTools") :
        \A a \in 1..Len(lst.tools) : \A b \in 1..Len(lst.tools[a].methods) :
            LET full == lst.tools[a].name \o "-" \o lst.tools[a].methods[b].name
                entries == lst.returned[r].tools
            IN  \E i \in 1..Len(entries) :
                   /\ entries[i].description = lst.tools[a].methods[b].description
                   /\ entries[i].name = First64(full)
                   /\ Len(entries[i].name) <= 64

\* listTools() has returned an entry whose name of 65 characters was cut to 64,
\* next to an entry whose name of 64 characters was left whole.
C21_Witness ==
    \E r \in Listings("listTools") :
        LET entries == lst.returned[r].tools IN
        \E i, j \in 1..Len(entries) :
            /\ entries[i].description = "API:" \o Pad60 \o "x"
            /\ entries[i].name = "API-" \o Pad60
            /\ entries[j].description = "API:" \o Pad60
            /\ entries[j].name = "API-" \o Pad60

\* C22: in the listings of the list handler and of listTools() alike, the
\* entry of a method is named '{resourceName}-{methodName}' when the resource
\* name is not empty and '{methodName}' alone when it is (cut to 64
\* characters).
C22_NameConstruction ==
    \A r \in Listings("handler") \cup Listings("listTools") :
        \A a \in 1..Len(lst.tools) : \A b \in 1..Len(lst.tools[a].methods) :
            LET resourceName == lst.tools[a].name
                methodName == lst.tools[a].methods[b].name
                entries == lst.returned[r].tools
            IN  \E i \in 1..Len(entries) :
                   /\ entries[i].description = lst.tools[a].methods[b].description
                   /\ entries[i].name =
                          First64(IF resourceName # "" THEN resourceName \o "-" \o methodName
                                  ELSE methodName)

NumMethods(table) == MethodsBefore(table, Len(table) + 1)

\* C30: a listing has exactly one entry per method of the tool table, each
\* under the first 64 characters of its derived name: two methods whose derived
\* names agree on their first 64 characters have two entries with the same
\* name, and none is left out, merged with another or named otherwise.
C30_NoCollisionDetection ==
    \A r \in Listings("handler") \cup Listings("listTools") :
        LET entries == lst.returned[r].tools IN
        /\ Len(entries) = NumMethods(lst.tools)
        /\ \A a \in 1..Len(lst.tools) : \A b \in 1..Len(lst.tools[a].methods) :
              LET resource == lst.tools[a].name
                  method == lst.tools[a].methods[b] IN
              /\ Cardinality({i \in 1..Len(entries) :
                                 entries[i].description = method.description}) = 1
              /\ \A i \in 1..Len(entries) :
                    entries[i].description = method.description
                        => entries[i].name \in {First64(resource \o "-" \o method.name),
                                                First64(method.name)}

\* A listing holds two entries of different methods under the same name, each
\* cut from a derived name of 65 characters.
C30_Witness ==
    \E r \in Listings("listTools") :
        LET entries == lst.returned[r].tools IN
        \E i, j \in 1..Len(entries) :
            /\ entries[i].description = "API:" \o Pad60 \o "x"
            /\ entries[j].description = "API:" \o Pad60 \o "y"
            /\ entries[i].name = entries[j].name
            /\ Len(entries) = NumMethods(lst.tools)

\* C28: a tool call whose upstream request succeeds returns an envelope with
\* exactly one content item, of type 'text', whose text is the JSON text of the
\* upstream response body (for a response without a body, what JSON.stringify
\* gives for it).
C28_SuccessEnvelope ==
    (call.pc = "done" /\ call.outcome.kind = "response") =>
        LET body == call.outcome.data IN
        /\ call.result.kind = "return"
        /\ DOMAIN call.result.value = {"content"}
        /\ Len(call.result.value.content) = 1
        /\ call.result.value.content[1].type = "text"
        /\ call.result.value.content[1].text =
               IF body = Undefined THEN Undefined ELSE [json |-> body]

\* callTool has returned the envelope of a response whose body is an object
\* with fields.
C28_Witness ==
    /\ call.pc = "done"
    /\ call.via = "callTool"
    /\ call.outcome.kind = "response"
    /\ call.outcome.data.t = "object"
    /\ DOMAIN call.outcome.data.f # {}
    /\ call.result.kind = "return"

\* C27: no proxy is built from a document that declares no base URL: the
\* constructor throws 'No base URL found in OpenAPI spec' and the stream-open
\* fails; and once the handler of a failed stream-open has finished, the
\* registry holds no session for that request, whatever made the construction
\* (or the connection) fail.
C27_FailedConstructionUnregistered ==
    \A c \in Conn :
        /\ pc[c] = "failed" => c \notin Registered
        /\ proxy[c].built => (proxy[c].baseUrl # NoVal /\ proxy[c].error = "")
        /\ proxy[c].error # ""
              => /\ proxy[c].error = "No base URL found in OpenAPI spec"
                 /\ ~proxy[c].built
                 /\ pc[c] = "failed"

\* The constructor has thrown for the document of a stream-open, whose handler
\* has finished, while the session of another request is registered.
C27_Witness ==
    \E c \in Conn :
        /\ pc[c] = "failed"
        /\ proxy[c] = NoBaseUrl
        /\ sid[c] # NoSid
        /\ Registered # {}

\* C24: every upstream request of a proxy built with a configuration of
\* credential k and version tag v carries 'Authorization: Bearer k' and the
\* version header v, whatever NOTION_API_KEY and NOTION_API_VERSION of the
\* environment hold.
C24_HeadersFromConfig ==
    \A c \in Conn : \A i \in 1..Len(cfg.sent[c]) :
        LET config == cfg.proxy[c].config IN
        /\ config.notionApiKey = cfg.query[c].notionApiKey
        /\ config.notionApiKey # NoVal
        /\ config.notionApiVersion # NoVal
        /\ cfg.sent[c][i].headers.Authorization = <<"Bearer", config.notionApiKey>>
        /\ cfg.sent[c][i].headers.NotionVersion = config.notionApiVersion

\* A request has gone out with the key and the version of the query while the
\* environment holds another key and another version.
C24_Witness ==
    \E c \in Conn : \E i \in 1..Len(cfg.sent[c]) :
        /\ cfg.env = [NOTION_API_KEY |-> "kenv", NOTION_API_VERSION |-> "venv"]
        /\ cfg.query[c].notionApiVersion = "v1"
        /\ cfg.sent[c][i].headers.NotionVersion = "v1"
        /\ cfg.sent[c][i].headers.Authorization = <<"Bearer", cfg.query[c].notionApiKey>>

C26_ConfigNeverChanges ==
    /\ [](\A c \in Conn : \A i, j \in 1..Len(cfg.sent[c]) :
            cfg.sent[c][i].headers = cfg.sent[c][j].headers)
    /\ [][\A c \in Conn :
            cfg.proxy[c].built
                => (cfg'.proxy[c] = cfg.proxy[c] /\ cfg'.query[c] = cfg.query[c])]_vars

\* A session has issued two requests with the same headers, and between them
\* a session with another credential was opened.
C26_Witness ==
    \E c \in Conn :
        /\ Len(cfg.sent[c]) = 2
        /\ cfg.sent[c][1].after < cfg.sent[c][2].after
        /\ cfg.sent[c][1].headers = cfg.sent[c][2].headers
        /\ \E d \in Conn \ {c} :
              /\ cfg.proxy[d].built
              /\ cfg.proxy[d].headers # cfg.proxy[c].headers

\* C29: in every state in which the server takes up a request, GET /health can
\* be answered; its answer is 200 with the payload whose status is 'healthy'
\* and whose timestamp is the time of the answer; and the step that answers it
\* leaves the registry, every session's handler, stream and proxy, and the
\* calls in flight as they were.
C29_HealthAlwaysAnswers ==
    /\ [](Quiet => ENABLED Health)
    /\ [][probe' # NoProbe
            => /\ probe'.status = 200
               /\ probe'.body = [status |-> "healthy", timestamp |-> Timestamp]
               /\ UNCHANGED <<sessions, pc, query, sid, res, closed, listener, out,
                              proxy, calls>>]_vars

\* The probe has been answered while one session is registered and open, the
\* stream-open of another has failed, and a tool call is in flight.
C29_Witness ==
    /\ probe.status = 200
    /\ probe.body.status = "healthy"
    /\ \E c, d \in Conn :
          /\ c \in Registered
          /\ pc[c] = "open"
          /\ calls[c] # <<>>
          /\ pc[d] = "failed"

\* The names of a listing, in its order.
NamesOf(tools) == [i \in 1..Len(tools) |-> tools[i].name]

\* C35: whenever the list handler and listTools() of a proxy have both
\* returned, the two listings hold the same tool names in the same order,
\* whatever the tool table, a table with an empty resource name included.
C35_ListingsAgree ==
    \A r1 \in Listings("handler") : \A r2 \in Listings("listTools") :
        NamesOf(lst.returned[r1].tools) = NamesOf(lst.returned[r2].tools)

\* C31: every session the registry holds has a transport connected to its
\* proxy (its stream-open handler has passed proxy.connect), and no message is
\* acknowledged (202) for a registered session whose proxy is still being
\* initialized or connected without having been forwarded.
C31_RegisteredIsConnected ==
    /\ \A c \in Registered : pc[c] = "open"
    /\ ~(/\ reply.status = 202
         /\ pc[reply.routed] \in {"init", "connect"}
         /\ ~reply.forwarded)

\* C32: a stream-open attempt whose initProxyWithConfig or proxy.connect
\* has failed has its HTTP response finished: an error status was sent, or the
\* stream that had been opened is closed.
C32_FailedAttemptFinished ==
    \A c \in Conn : pc[c] = "failed" => (res[c].status >= 400 \/ closed[c])

C34_ErrorEchoesId ==
    \A i \in 1..Len(rpc) :
        rpc[i].answer.body.code # 0
            => /\ rpc[i].id # Undefined => rpc[i].answer.body.id = rpc[i].id
               /\ rpc[i].answer.body.id = JsNull => rpc[i].id = Undefined

====
